---------------------------- MODULE Spec2Model ----------------------------
(***************************************************************************)
(* Model of src/main.rs of bevy-demo-ruins: the deferred scene patcher     *)
(* (patch_loaded_scene, run once per frame in the engine's Update set,     *)
(* its Commands applied at the flush that ends the set) and the orbit      *)
(* camera (update_camera).                                                 *)
(*                                                                         *)
(* Engine parts the program only calls are modelled by their contract:     *)
(*   - Assets<Gltf>::get(handle) is Some once the asset is in the store;   *)
(*   - HashMap::get / Assets::get_mut are Some iff the key is present;     *)
(*   - Vec indexing scenes[0] panics on an empty Vec;                      *)
(*   - Commands are queued by the system and applied afterwards, in order; *)
(*   - a panic in a system ends the application.                           *)
(***************************************************************************)
EXTENDS Integers, Sequences, FiniteSets, TLC

\* ------------------------------------------------------------------ bounds
\* Named scene-graph nodes the spawned scene may materialise.
MaxNodes == 2
\* Root scene graphs an asset may hold (0 .. MaxScenes).
MaxScenes == 1
\* The cosine is drawn from the multiples of 2^-CosBits in [-1, 1].
CosBits == 6

\* ------------------------------------------------------------- name tables
\* The handle load_scene stores in GltfState.
SceneHandle == "ruins/scene.gltf"

\* The fixed list of foliage materials of the for loop.
FoliageNames ==
    { "Blue_flower", "Fern", "Fern1", "lambert10", "orange_leaf", "lambert5",
      "grass", "tree_leafs", "palm", "palm_and_red", "Leaf_Floor", "lambert8",
      "Pink_flower", "lambert11" }

\* Every material name patch_loaded_scene looks up.
KnownMaterialNames ==
    { "stained", "stained-clearcoat", "fire", "smoke" } \cup FoliageNames

\* A material of the asset that the program never looks up.
OtherMaterialName == "rock"

\* The known names an asset of the model may or may not hold: the four
\* individually patched ones and one foliage name.
OptionalMaterialNames == { "stained", "stained-clearcoat", "fire", "smoke", "Fern" }

\* Names of scene-graph nodes, as character sequences (str::contains is a
\* substring search over them).
Name_bonfire == << "b", "o", "n", "f", "i", "r", "e" >>
Name_smoke1 == << "s", "m", "o", "k", "e", "1" >>
Name_Fire == << "F", "i", "r", "e" >>
Name_rock == << "r", "o", "c", "k" >>
NodeNames == { Name_bonfire, Name_smoke1, Name_Fire, Name_rock }

Pat_fire == << "f", "i", "r", "e" >>
Pat_smoke == << "s", "m", "o", "k", "e" >>

\* ---------------------------------------------------------------- state
VARIABLES
    is_loaded,       \* GltfState.is_loaded
    gltf_assets,     \* Assets<Gltf>: handle -> [named_materials, scenes]
    materials,       \* Assets<StandardMaterial>, keyed by material name
    commands,        \* the Commands queue of patch_loaded_scene, not yet applied
    scenes,          \* SceneBundle entities in the world
    entities,        \* named scene-graph nodes in the world, in spawn order
    stage,           \* "Update": systems run next; "UpdateFlush": commands apply next
    panicked,        \* a system panicked: the application has ended
    tick_unpatched,  \* the nodes without Patched when the latest sweep started
    camera           \* what update_camera computed last

vars == << is_loaded, gltf_assets, materials, commands, scenes, entities,
           stage, panicked, tick_unpatched, camera >>

patcher_vars == << is_loaded, gltf_assets, materials, commands, scenes,
                   entities, stage, panicked, tick_unpatched >>

\* ------------------------------------------------------------- materials
\* A StandardMaterial as the asset authored it (the fields the program edits).
AuthoredMaterial(name) ==
    [ alpha_mode |-> "Opaque", fog_enabled |-> TRUE, unlit |-> FALSE,
      depth_bias |-> "0.0", perceptual_roughness |-> "0.5",
      base_color |-> "WHITE", reflectance |-> "0.5", emissive |-> "BLACK",
      base_color_texture |-> name, emissive_texture |-> "None" ]

\* The edits patch_loaded_scene applies to the material found under `name`.
EditMaterial(name, m) ==
    CASE name = "stained" ->
            [m EXCEPT !.alpha_mode = "Multiply", !.fog_enabled = FALSE,
                      !.unlit = TRUE]
      [] name = "stained-clearcoat" ->
            [m EXCEPT !.alpha_mode = "Add", !.depth_bias = "0.3",
                      !.perceptual_roughness = "0.1"]
      [] name = "fire" ->
            [m EXCEPT !.alpha_mode = "Add", !.base_color = "BLACK",
                      !.reflectance = "0.0",
                      !.emissive = "rgb_linear(10.0, 10.0, 10.0)",
                      !.emissive_texture = m.base_color_texture]
      [] name = "smoke" ->
            [m EXCEPT !.alpha_mode = "Add", !.base_color = "BLACK",
                      !.reflectance = "0.0",
                      !.emissive = "rgb(0.5, 0.3, 0.2)",
                      !.emissive_texture = m.base_color_texture]
      [] name \in FoliageNames ->
            [m EXCEPT !.alpha_mode = "Mask(0.5)"]
      [] OTHER -> m

\* gltf.named_materials.get(name) is Some and materials.get_mut(handle) is Some.
LookupResolves(gltf, store, name) ==
    name \in gltf.named_materials /\ name \in DOMAIN store

\* The material store after the chain of `if let Some` blocks and the loop.
PatchMaterials(gltf, store) ==
    [ n \in DOMAIN store |->
        IF n \in KnownMaterialNames /\ LookupResolves(gltf, store, n)
        THEN EditMaterial(n, store[n])
        ELSE store[n] ]

\* ----------------------------------------------------------------- nodes
\* str::contains: pat occurs in s as a contiguous, case-sensitive substring.
Contains(s, pat) ==
    \E k \in 0 .. (Len(s) - Len(pat)) : SubSeq(s, k + 1, k + Len(pat)) = pat

\* FixupBundle with && in place of ||.
FixupBundle_and(name) ==
    IF Contains(name, Pat_fire) /\ Contains(name, Pat_smoke)
    THEN { "NotShadowCaster", "NotShadowReceiver", "Patched" }
    ELSE { "Patched" }

\* FixupBundle whose else branch inserts nothing.
FixupBundle_unmarked(name) ==
    IF Contains(name, Pat_fire) \/ Contains(name, Pat_smoke)
    THEN { "NotShadowCaster", "NotShadowReceiver", "Patched" }
    ELSE {}

\* The bundle the sweep inserts on a node of that name.
FixupBundle(name) ==
    IF Contains(name, Pat_fire) \/ Contains(name, Pat_smoke)
    THEN { "NotShadowCaster", "NotShadowReceiver", "Patched" }
    ELSE { "Patched" }

\* The query without its Without<Patched> filter.
named_entities_unfiltered == DOMAIN entities

\* Query<(&Name, Entity), Without<Patched>>.
named_entities ==
    { i \in DOMAIN entities : "Patched" \notin entities[i].components }

\* A set of entity indices as a sequence, in increasing order.
RECURSIVE InOrder(_)
InOrder(S) ==
    IF S = {} THEN << >>
    ELSE LET lo == CHOOSE x \in S : \A y \in S : x <= y
         IN  << lo >> \o InOrder(S \ { lo })

InsertCommand(i) ==
    [ op |-> "insert", entity |-> i, bundle |-> FixupBundle(entities[i].name) ]

SpawnSceneCommand == [ op |-> "spawn", entity |-> 0, bundle |-> {} ]

\* ------------------------------------------------------------------ init
Init ==
    /\ is_loaded = FALSE
    /\ gltf_assets = << >>
    /\ materials = << >>
    /\ commands = << >>
    /\ scenes = 0
    /\ entities = << >>
    /\ stage = "Update"
    /\ panicked = FALSE
    /\ tick_unpatched = {}
    /\ camera = [ updated |-> FALSE, cosine |-> 0, orbit_scale |-> 0 ]

\* --------------------------------------------------------------- engine
\* The asset pipeline finishes loading the scene file: the Gltf enters
\* Assets<Gltf> with whatever material table and root scenes the file holds.
\* Its materials enter Assets<StandardMaterial> through a channel of their
\* own: they are either all in the store by then, or none of them is yet.
AssetLoaded ==
    /\ ~panicked
    /\ stage = "Update"
    /\ SceneHandle \notin DOMAIN gltf_assets
    /\ \E table \in SUBSET OptionalMaterialNames :
       \E stored \in { table, {} } :
       \E n \in 0 .. MaxScenes :
          /\ gltf_assets' =
                [ h \in { SceneHandle } |->
                    [ named_materials |-> table \cup { OtherMaterialName },
                      scenes |-> n ] ]
          /\ materials' =
                [ m \in stored \cup { OtherMaterialName } |-> AuthoredMaterial(m) ]
    /\ UNCHANGED << is_loaded, commands, scenes, entities, stage, panicked,
                    tick_unpatched, camera >>

\* The scene spawner instantiates one more named node of the spawned scene.
NodeMaterialises ==
    /\ ~panicked
    /\ scenes >= 1
    /\ Len(entities) < MaxNodes
    /\ \E name \in NodeNames :
          entities' = Append(entities, [ name |-> name, components |-> {} ])
    /\ UNCHANGED << is_loaded, gltf_assets, materials, commands, scenes, stage,
                    panicked, tick_unpatched, camera >>

\* One queued command applied to the world.
ApplyToEntities(ents, cmd) ==
    IF cmd.op = "insert"
    THEN [ ents EXCEPT ![cmd.entity].components = @ \cup cmd.bundle ]
    ELSE ents

RECURSIVE ApplyAll(_, _)
ApplyAll(ents, queue) ==
    IF queue = << >> THEN ents
    ELSE ApplyAll(ApplyToEntities(ents, Head(queue)), Tail(queue))

SpawnCount(queue) ==
    Cardinality({ k \in DOMAIN queue : queue[k].op = "spawn" })

\* The flush at the end of the Update set applies the queued commands.
apply_system_buffers ==
    /\ ~panicked
    /\ stage = "UpdateFlush"
    /\ entities' = ApplyAll(entities, commands)
    /\ scenes' = scenes + SpawnCount(commands)
    /\ commands' = << >>
    /\ stage' = "Update"
    /\ UNCHANGED << is_loaded, gltf_assets, materials, panicked,
                    tick_unpatched, camera >>

\* ------------------------------------------------------ patch_loaded_scene
\* if !gltf_state.is_loaded, asset not yet available: nothing happens.
PatchPending ==
    /\ SceneHandle \notin DOMAIN gltf_assets
    /\ UNCHANGED << is_loaded, gltf_assets, materials, commands, scenes,
                    entities, panicked, tick_unpatched >>
    /\ stage' = "UpdateFlush"

\* if !gltf_state.is_loaded, asset available: edit the materials, then build
\* the SceneBundle from gltf.scenes[0] (a panic when there is none), queue its
\* spawn and set the flag.
PatchAvailable ==
    /\ SceneHandle \in DOMAIN gltf_assets
    /\ LET gltf == gltf_assets[SceneHandle]
       IN  /\ materials' = PatchMaterials(gltf, materials)
           /\ IF gltf.scenes = 0
              THEN /\ panicked' = TRUE
                   /\ UNCHANGED << is_loaded, commands, stage >>
              ELSE /\ commands' = Append(commands, SpawnSceneCommand)
                   /\ is_loaded' = TRUE
                   /\ stage' = "UpdateFlush"
                   /\ UNCHANGED panicked
    /\ UNCHANGED << gltf_assets, scenes, entities, tick_unpatched >>

PatchBranch == PatchPending \/ PatchAvailable

\* A sweep that clears the flag once it finds nothing left to fix up.
SweepBranch_resets ==
    /\ commands' = commands \o [ k \in 1 .. Cardinality(named_entities) |->
                                   InsertCommand(InOrder(named_entities)[k]) ]
    /\ tick_unpatched' =
          { i \in DOMAIN entities : "Patched" \notin entities[i].components }
    /\ stage' = "UpdateFlush"
    /\ is_loaded' = (named_entities # {})
    /\ UNCHANGED << gltf_assets, materials, scenes, entities, panicked >>

\* else: queue the fix-up of every named node the query yields.
SweepBranch ==
    /\ commands' = commands \o [ k \in 1 .. Cardinality(named_entities) |->
                                   InsertCommand(InOrder(named_entities)[k]) ]
    /\ tick_unpatched' =
          { i \in DOMAIN entities : "Patched" \notin entities[i].components }
    /\ stage' = "UpdateFlush"
    /\ UNCHANGED << is_loaded, gltf_assets, materials, scenes, entities, panicked >>

\* patch_loaded_scene without the test of is_loaded around the patch.
patch_loaded_scene_unguarded ==
    /\ ~panicked
    /\ stage = "Update"
    /\ (PatchBranch \/ (is_loaded /\ SweepBranch))
    /\ UNCHANGED camera

patch_loaded_scene ==
    /\ ~panicked
    /\ stage = "Update"
    /\ IF ~is_loaded THEN PatchBranch ELSE SweepBranch
    /\ UNCHANGED camera

\* ---------------------------------------------------------- update_camera
\* f32 values are integers in units of 2^-23 (the spacing of f32 in [1, 2)).
Unit == 2 ^ 23

\* The literal 5.1 as f32: 10695475 * 2^-21 = 5.099999904632568.
F32_5_1 == 42781900

\* The values (now / 10.0).cos() is drawn from: multiples of 2^-CosBits in [-1, 1].
CosValues ==
    { k * 2 ^ (23 - CosBits) : k \in (0 - 2 ^ CosBits) .. (2 ^ CosBits) }

\* The spacing of f32 at a positive value v below 16.
Ulp(v) ==
    IF v < 2 ^ 24 THEN 1
    ELSE IF v < 2 ^ 25 THEN 2
    ELSE IF v < 2 ^ 26 THEN 4
    ELSE 8

\* IEEE 754 round-to-nearest, ties-to-even, of the exact value v to f32.
RoundF32(v) ==
    LET u == Ulp(v)
        q == v \div u
        r == v % u
    IN  IF 2 * r < u THEN q * u
        ELSE IF 2 * r > u THEN (q + 1) * u
        ELSE IF q % 2 = 0 THEN q * u
        ELSE (q + 1) * u

\* The orbit with an amplitude of 5.0 in place of 4.0.
OrbitScale_amplitude5(c) == RoundF32(F32_5_1 - c * 5)

\* let orbit_scale = 5.1 - (now / 10.0).cos() * 4.0: the product is exact,
\* the difference is rounded to f32.
OrbitScale(c) == RoundF32(F32_5_1 - c * 4)

update_camera ==
    /\ ~panicked
    /\ \E c \in CosValues :
          camera' = [ updated |-> TRUE, cosine |-> c, orbit_scale |-> OrbitScale(c) ]
    /\ UNCHANGED patcher_vars

\* ------------------------------------------------------- specifications
\* patch_loaded_scene and update_camera share no state: the patcher is
\* checked under Spec and FairSpec, the camera under SpecCamera.
Next ==
    \/ AssetLoaded
    \/ NodeMaterialises
    \/ patch_loaded_scene
    \/ apply_system_buffers

Spec == Init /\ [][Next]_vars

\* The engine's run loop executes the Update set and its flush every frame.
FairSpec ==
    /\ Init
    /\ [][Next]_vars
    /\ WF_vars(patch_loaded_scene)
    /\ WF_vars(apply_system_buffers)

NextCamera == update_camera

SpecCamera == Init /\ [][NextCamera]_vars

\* ------------------------------------------------------------ properties
Patched(i) == "Patched" \in entities[i].components

AllPatched == \A i \in DOMAIN entities : Patched(i)

ShadowCaps == { "NotShadowCaster", "NotShadowReceiver" }

\* Scene instances the program has spawned: in the world or queued for it.
SpawnedInstances == scenes + SpawnCount(commands)

AssetAvailable == SceneHandle \in DOMAIN gltf_assets

\* C1: is_loaded starts false and no step takes it from true back to false
\* (so it goes from false to true at most once).
C1_LoadedMonotone == ~is_loaded /\ [][is_loaded => is_loaded']_vars

\* A sweep tick has run with is_loaded true, and the flag is still true.
C1_Witness == is_loaded /\ stage = "Update" /\ tick_unpatched # {}

\* C2: once a sweep tick's commands are applied, every node that lacked
\* Patched when the tick started carries Patched; it carries both shadow
\* exclusions if its name contains "fire" or "smoke", and neither otherwise.
C2_SweepCoverage ==
    (is_loaded /\ stage = "Update") =>
        \A i \in tick_unpatched :
            /\ Patched(i)
            /\ IF Contains(entities[i].name, Pat_fire)
                  \/ Contains(entities[i].name, Pat_smoke)
               THEN ShadowCaps \subseteq entities[i].components
               ELSE ShadowCaps \cap entities[i].components = {}

\* One sweep fixed up a node named "bonfire" or "smoke1" (both exclusions)
\* and a node named "Fire" or "rock" (the marker alone).
C2_Witness ==
    /\ is_loaded
    /\ stage = "Update"
    /\ \E i \in tick_unpatched :
          /\ entities[i].name \in { Name_bonfire, Name_smoke1 }
          /\ entities[i].components = ShadowCaps \cup { "Patched" }
    /\ \E j \in tick_unpatched :
          /\ entities[j].name \in { Name_Fire, Name_rock }
          /\ entities[j].components = { "Patched" }

\* C3: with is_loaded true and every named node marked, a run of
\* patch_loaded_scene queues no command and changes nothing, and the flush
\* that follows it changes nothing either.
C3_SweepIdempotent ==
    [][ /\ (is_loaded /\ AllPatched /\ stage = "Update" /\ stage' = "UpdateFlush")
            => /\ commands' = << >>
               /\ UNCHANGED << is_loaded, gltf_assets, materials, scenes,
                               entities, panicked >>
        /\ (commands = << >> /\ stage = "UpdateFlush" /\ stage' = "Update")
            => UNCHANGED << is_loaded, gltf_assets, materials, scenes,
                            entities, panicked >>
      ]_vars

\* A sweep has just run over a world whose nodes were all marked already.
C3_Witness ==
    /\ is_loaded
    /\ stage = "UpdateFlush"
    /\ entities # << >>
    /\ AllPatched
    /\ commands = << >>

\* C4: a node that carries Patched keeps it, and every fix-up the sweep has
\* queued is for a node that does not carry Patched (so a marked node is
\* never processed again and the marker is acquired at most once).
C4_PatchedAtMostOnce ==
    [][ /\ \A i \in DOMAIN entities : Patched(i) => Patched(i)'
        /\ \A k \in DOMAIN commands' :
              commands'[k].op = "insert" =>
                  /\ "Patched" \notin entities'[commands'[k].entity].components
                  /\ \A l \in DOMAIN commands' :
                        commands'[l].entity = commands'[k].entity => l = k
      ]_vars

\* A sweep ran while one node was already marked and queued a fix-up for
\* another node only.
C4_Witness ==
    /\ stage = "UpdateFlush"
    /\ commands # << >>
    /\ \E i \in DOMAIN entities : Patched(i)

\* The material store as the patch step must leave it: the authored material
\* edited for every known name whose lookup resolves, untouched otherwise.
ExpectedMaterials ==
    [ n \in DOMAIN materials |->
        IF /\ n \in KnownMaterialNames
           /\ n \in gltf_assets[SceneHandle].named_materials
        THEN EditMaterial(n, AuthoredMaterial(n))
        ELSE AuthoredMaterial(n) ]

\* The tick in which patch_loaded_scene found the asset available has run.
PatchTickRan == is_loaded \/ panicked

\* C5: whatever subset of the known materials the asset holds, the patch
\* tick completes without error, edits exactly the materials found, spawns
\* the scene and sets is_loaded.
C5_PatchCompletes ==
    PatchTickRan =>
        /\ ~panicked
        /\ is_loaded
        /\ SpawnedInstances = 1
        /\ materials = ExpectedMaterials

\* C6: the patch tick never ends in a panic, whatever the asset holds.
C6_NoFatalError == ~panicked

\* C8: at most one scene instance is ever spawned, is_loaded is true exactly
\* when one has been, and one is spawned only once the asset is available.
C8_OneSpawn ==
    /\ SpawnedInstances <= 1
    /\ is_loaded <=> (SpawnedInstances = 1)
    /\ (SpawnedInstances = 1) => AssetAvailable

\* The scene is in the world and a later sweep tick has run.
C8_Witness == is_loaded /\ scenes = 1 /\ tick_unpatched # {}

\* C9: under the engine's frame loop, whenever some named node in the world
\* lacks the marker (however late it materialised), a state follows in which
\* every named node in the world carries it; and once is_loaded is true it
\* stays true.
C9_EventuallyPatched ==
    /\ (~AllPatched) ~> AllPatched
    /\ [][is_loaded => is_loaded']_vars

\* Node 2 was fixed up by a later sweep than node 1: it appeared after the
\* sweep that handled node 1 had run.
C9_Witness ==
    /\ stage = "Update"
    /\ Len(entities) >= 2
    /\ AllPatched
    /\ tick_unpatched = { 2 }

\* C10: a material is edited only in a step that takes is_loaded from false
\* to true.
C10_EditsOnlyInPatchTick ==
    [][ (\E n \in DOMAIN materials : materials'[n] # materials[n])
            => (~is_loaded /\ is_loaded') ]_vars

\* C7: every radius update_camera computes satisfies
\* 1.1 <= orbit_scale <= 9.1 (compared as real numbers).
C7_RadiusWithinRealBounds ==
    camera.updated =>
        /\ 11 * Unit <= 10 * camera.orbit_scale
        /\ 10 * camera.orbit_scale <= 91 * Unit

\* C7, up to f32 rounding: every radius update_camera computes satisfies
\* 1.1 - 2^-23 <= orbit_scale <= 9.1 + 2^-21.
C7_RadiusWithinRoundedBounds ==
    camera.updated =>
        /\ 11 * Unit - 10 * 1 <= 10 * camera.orbit_scale
        /\ 10 * camera.orbit_scale <= 91 * Unit + 10 * 4

\* update_camera ran at a time where the cosine is 1: the radius is
\* fl(5.1) - 4 = 1.0999999046...
C7_Witness ==
    /\ camera.updated
    /\ camera.cosine = Unit
    /\ camera.orbit_scale = F32_5_1 - 4 * Unit

=============================================================================
